---- MODULE Spec2Model ----
(***************************************************************************)
(* Model of the automated sales reporting ETL pipeline                     *)
(* (pipeline/extract.py, pipeline/transform.py, pipeline/load.py,          *)
(* pipeline/main.py).                                                      *)
(*                                                                         *)
(* A batch (pandas DataFrame) is a sequence of row records plus the dtype  *)
(* of every column, because handle_nulls and the loaders dispatch on it.   *)
(* Numbers are fixed-point integers in hundredths (1.5 is 150), so that a  *)
(* fractional quantity and a discount fraction can be told apart from      *)
(* integers.  A missing number is NaN, a missing text is NA, a missing     *)
(* date is NaT.  The target database is a record of six tables, each a     *)
(* sequence of rows in insertion order, or no tables at all.               *)
(***************************************************************************)
EXTENDS Integers, Sequences, FiniteSets, TLC

\* ---------------------------------------------------------------- bounds
MaxRows == 2

\* ------------------------------------------------------- missing markers
NA == "<NA>"
Unknown == "Unknown"
ZeroText == "0.0"
NaN == -999999
UnknownNum == -888888
NaT == [y |-> 0, m |-> 0, d |-> 0]
UnknownDate == [y |-> -1, m |-> -1, d |-> -1]
Scale == 100

\* comparisons of pandas: a comparison with a missing value is False
NumLt(x, k) == x # NaN /\ x < k
NumGt(x, k) == x # NaN /\ x > k

\* ------------------------------------------------------------- sequences
Range(s) == {s[i] : i \in 1..Len(s)}

SelectIdx(s, P(_)) ==
    LET F[i \in 0..Len(s)] ==
            IF i = 0 THEN <<>>
            ELSE IF P(i) THEN Append(F[i-1], s[i]) ELSE F[i-1]
    IN F[Len(s)]

\* keep the first row of every group of rows with the same Key
DropDuplicatesBy(s, Key(_)) ==
    SelectIdx(s, LAMBDA i : \A j \in 1..(i-1) : Key(s[j]) # Key(s[i]))

SeqMap(s, F(_)) == [i \in 1..Len(s) |-> F(s[i])]

\* ------------------------------------------------------------- calendar
IsLeap(y) == (y % 4 = 0 /\ y % 100 # 0) \/ y % 400 = 0

DaysInMonth(y, m) ==
    CASE m \in {1, 3, 5, 7, 8, 10, 12} -> 31
      [] m \in {4, 6, 9, 11} -> 30
      [] OTHER -> IF IsLeap(y) THEN 29 ELSE 28

\* what strptime('%Y-%m-%d') accepts
ValidDate(t) ==
    /\ t.y >= 1 /\ t.y <= 9999
    /\ t.m >= 1 /\ t.m <= 12
    /\ t.d >= 1 /\ t.d <= DaysInMonth(t.y, t.m)

RECURSIVE DaysBeforeMonth(_, _)
DaysBeforeMonth(y, m) ==
    IF m <= 1 THEN 0 ELSE DaysBeforeMonth(y, m - 1) + DaysInMonth(y, m - 1)

DayOfYear(t) == DaysBeforeMonth(t.y, t.m) + t.d

\* proleptic Gregorian ordinal, 0001-01-01 is day 1
Ordinal(t) ==
    LET p == t.y - 1
    IN 365 * p + (p \div 4) - (p \div 100) + (p \div 400) + DayOfYear(t)

\* Monday = 0 .. Sunday = 6
DayOfWeek(t) == (Ordinal(t) + 6) % 7

Quarter(t) == ((t.m - 1) \div 3) + 1

WeeksInYear(y) ==
    LET jan1 == DayOfWeek([y |-> y, m |-> 1, d |-> 1])
    IN IF jan1 = 3 \/ (jan1 = 2 /\ IsLeap(y)) THEN 53 ELSE 52

IsoWeek(t) ==
    LET w == (DayOfYear(t) - (DayOfWeek(t) + 1) + 10) \div 7
    IN IF w < 1 THEN WeeksInYear(t.y - 1)
       ELSE IF w > WeeksInYear(t.y) THEN 1
       ELSE w

MonthName(m) ==
    <<"January", "February", "March", "April", "May", "June", "July",
      "August", "September", "October", "November", "December">>[m]

DayName(w) ==
    <<"Monday", "Tuesday", "Wednesday", "Thursday", "Friday", "Saturday",
      "Sunday">>[w + 1]

\* strftime('%Y%d%m')
DateKeyDayMonth(t) == t.y * 10000 + t.d * 100 + t.m

\* int(date.strftime('%Y%m%d'))
DateKey(t) == t.y * 10000 + t.m * 100 + t.d

DateLess(a, b) == Ordinal(a) < Ordinal(b)

\* ascending sort of a set of dates
RECURSIVE SortDates(_)
SortDates(S) ==
    IF S = {} THEN <<>>
    ELSE LET lo == CHOOSE a \in S : \A b \in S : ~ DateLess(b, a)
         IN <<lo>> \o SortDates(S \ {lo})

\* ------------------------------------------------------------ raw batch
\* columns of the source file after clean_column_names
TextCols == {"order_id", "ship_mode", "customer_id", "customer_name",
             "product_id", "product_name"}
DateCols == {"order_date", "ship_date"}
NumCols == {"sales", "quantity", "discount", "profit"}
DerivedNumCols == {"profit_margin", "delivery_days", "order_year",
                   "order_month", "order_quarter", "order_week", "is_weekend"}
DerivedTextCols == {"order_month_name", "order_day_name"}
RawCols == TextCols \cup DateCols \cup NumCols
Cols == RawCols \cup DerivedNumCols \cup DerivedTextCols

\* columns read with dtype=str (extract.py), object even when all missing
StrCols == {"order_id", "customer_id", "product_id"}

NumericDtypes == {"float64", "int64", "Int64"}

\* pd.to_numeric(errors='coerce') of a cell text, in hundredths
ToNumeric(s) ==
    CASE s = "0" -> 0
      [] s = "1" -> 100
      [] s = "2" -> 200
      [] s = "3" -> 300
      [] s = "-1" -> -100
      [] s = "1.5" -> 150
      [] s = "0.2" -> 20
      [] s = "-0.1" -> -10
      [] s = "20" -> 2000
      [] s = "40" -> 4000
      [] s = "-5" -> -500
      [] s = "50" -> 5000
      [] s = "100" -> 10000
      [] s = "200" -> 20000
      [] OTHER -> NaN

\* a cell text that read_csv itself takes for missing
IsEmptyCell(s) == s = ""

\* pd.to_datetime(format='%Y-%m-%d', errors='coerce') of a cell
ToDatetime(t) == IF ValidDate(t) THEN t ELSE NaT

\* dtype pandas infers for a column of the file (read_csv)
RawDtype(rows, c) ==
    IF c \in StrCols THEN "object"
    ELSE IF c \in TextCols
         THEN IF \A i \in 1..Len(rows) : rows[i][c] = NA
              THEN "float64" ELSE "object"
    ELSE IF c \in DateCols
         THEN IF \A i \in 1..Len(rows) : rows[i][c] = NaT
              THEN "float64" ELSE "object"
    ELSE IF c \in NumCols
         THEN IF \A i \in 1..Len(rows) :
                     IsEmptyCell(rows[i][c]) \/ ToNumeric(rows[i][c]) # NaN
              THEN "float64" ELSE "object"
    ELSE "absent"

RawBatch(rows) == [rows |-> rows, dtypes |-> [c \in Cols |-> RawDtype(rows, c)]]

\* ---------------------------------------------------- transform.py steps
\* drop_duplicates(subset=['order_id'])
remove_duplicates_by_order_id(b) ==
    [b EXCEPT !.rows = DropDuplicatesBy(b.rows, LAMBDA r : r.order_id)]

\* df.drop_duplicates(): first occurrence of every distinct whole row
remove_duplicates(b) ==
    [b EXCEPT !.rows = DropDuplicatesBy(b.rows, LAMBDA r : r)]

TypedRow(r) ==
    [r EXCEPT !.order_date = ToDatetime(r.order_date),
              !.ship_date = ToDatetime(r.ship_date),
              !.sales = ToNumeric(r.sales),
              !.profit = ToNumeric(r.profit),
              !.discount = ToNumeric(r.discount),
              !.quantity = ToNumeric(r.quantity)]

\* astype('Int64') refuses a float column holding a non-integral value
FractionalQuantity(rows) ==
    \E i \in 1..Len(rows) :
        LET q == ToNumeric(rows[i].quantity) IN q # NaN /\ q % Scale # 0

fix_data_types(b) ==
    IF FractionalQuantity(b.rows)
    THEN [err |-> "TypeError", b |-> b]
    ELSE [err |-> "none",
          b |-> [rows |-> SeqMap(b.rows, TypedRow),
                 dtypes |-> [c \in Cols |->
                     IF c \in DateCols THEN "datetime64"
                     ELSE IF c = "quantity" THEN "Int64"
                     ELSE IF c \in NumCols THEN "float64"
                     ELSE b.dtypes[c]]]]

\* round(n / d) to the nearest integer, ties to even, d # 0
RoundDiv(n, d) ==
    LET sgn == IF (n < 0) # (d < 0) THEN -1 ELSE 1
        an == IF n < 0 THEN -n ELSE n
        ad == IF d < 0 THEN -d ELSE d
        q == an \div ad
        r2 == 2 * (an % ad)
        up == r2 > ad \/ (r2 = ad /\ q % 2 = 1)
    IN sgn * (IF up THEN q + 1 ELSE q)

\* the margin is carried in thousandths of a percent, which tells a value
\* rounded to two decimals from one that was not
MarginScale == 1000

\* round(profit / sales.replace(0, NA) * 100, 2): the division by a missing
\* value is missing; round() rounds a float64 column and leaves an object
\* column (the one replace() makes when it finds a zero) as it is
ProfitMargin(r, rounded) ==
    IF r.profit = NaN \/ r.sales = NaN \/ r.sales = 0 THEN NaN
    ELSE IF rounded
         THEN RoundDiv(r.profit * 100 * Scale, r.sales) * (MarginScale \div Scale)
         ELSE RoundDiv(r.profit * 100 * MarginScale, r.sales)

DeliveryDays(r) ==
    IF r.ship_date = NaT \/ r.order_date = NaT THEN NaN
    ELSE Ordinal(r.ship_date) - Ordinal(r.order_date)

DerivedRow(r, rounded) ==
    LET t == r.order_date
        nat == t = NaT
    IN [order_id |-> r.order_id, order_date |-> r.order_date,
        ship_date |-> r.ship_date, ship_mode |-> r.ship_mode,
        customer_id |-> r.customer_id, customer_name |-> r.customer_name,
        product_id |-> r.product_id, product_name |-> r.product_name,
        sales |-> r.sales, quantity |-> r.quantity,
        discount |-> r.discount, profit |-> r.profit,
        profit_margin |-> ProfitMargin(r, rounded),
        delivery_days |-> DeliveryDays(r),
        order_year |-> IF nat THEN NaN ELSE t.y,
        order_month |-> IF nat THEN NaN ELSE t.m,
        order_quarter |-> IF nat THEN NaN ELSE Quarter(t),
        order_month_name |-> IF nat THEN NA ELSE MonthName(t.m),
        order_day_name |-> IF nat THEN NA ELSE DayName(DayOfWeek(t)),
        order_week |-> IF nat THEN NaN ELSE IsoWeek(t),
        is_weekend |-> IF nat THEN 0
                       ELSE IF DayOfWeek(t) \in {5, 6} THEN 1 ELSE 0]

AnyNull(rows, c, null) == \E i \in 1..Len(rows) : rows[i][c] = null

\* the columns are assigned in source order; isocalendar().week.astype(int)
\* raises on a missing order date, after the earlier columns were assigned
add_derived_columns(b) ==
    LET zero == \E i \in 1..Len(b.rows) : b.rows[i].sales = 0
        rows == SeqMap(b.rows, LAMBDA r : DerivedRow(r, ~ zero))
        nat == AnyNull(b.rows, "order_date", NaT)
        dt == [c \in Cols |->
                 CASE c = "profit_margin" ->
                          IF zero THEN "object" ELSE "float64"
                   [] c = "delivery_days" ->
                          IF AnyNull(rows, c, NaN) THEN "float64" ELSE "int64"
                   [] c \in {"order_year", "order_month", "order_quarter"} ->
                          IF nat THEN "float64" ELSE "int32"
                   [] c \in DerivedTextCols -> "object"
                   [] c \in {"order_week", "is_weekend"} ->
                          IF nat THEN "absent" ELSE "int64"
                   [] OTHER -> b.dtypes[c]]
    IN [err |-> IF nat THEN "ValueError" ELSE "none",
        b |-> [rows |-> rows, dtypes |-> dt]]

\* the missing marker of a column
NullOf(c) ==
    IF c \in TextCols \cup DerivedTextCols THEN NA
    ELSE IF c \in DateCols THEN NaT
    ELSE NaN

NullCount(b, c) == Cardinality({i \in 1..Len(b.rows) : b.rows[i][c] = NullOf(c)})

\* the counts of failed conversions fix_data_types writes to the log,
\* by column: the nulls of order_date, and of no other column
coercion_log(b) == [c \in {"order_date"} |-> NullCount(b, c)]

\* df.isnull().sum().sum() over the columns the batch has
TotalNulls(b) ==
    LET F[i \in 0..Len(b.rows)] ==
            IF i = 0 THEN 0
            ELSE F[i-1] + Cardinality({c \in Cols : b.dtypes[c] # "absent"
                                           /\ b.rows[i][c] = NullOf(c)})
    IN F[Len(b.rows)]

\* fillna(0) in a numeric column, fillna('Unknown') in any other
FillValue(c, dtype) ==
    IF dtype \in NumericDtypes
    THEN (IF c \in TextCols \cup DerivedTextCols THEN ZeroText ELSE 0)
    ELSE (IF c \in TextCols \cup DerivedTextCols THEN Unknown
          ELSE IF c \in DateCols THEN UnknownDate
          ELSE UnknownNum)

FilledRow(b, r) ==
    [c \in Cols |->
        IF b.dtypes[c] # "absent" /\ r[c] = NullOf(c)
        THEN FillValue(c, b.dtypes[c]) ELSE r[c]]

\* a column filled with text is an object column afterwards
FilledDtype(b, c) ==
    IF b.dtypes[c] # "absent" /\ NullCount(b, c) > 0
       /\ b.dtypes[c] \notin NumericDtypes
    THEN "object" ELSE b.dtypes[c]

\* a fill that handles the numeric columns only
handle_nulls_numeric_only(b) ==
    IF TotalNulls(b) = 0 THEN b
    ELSE [rows |-> SeqMap(b.rows,
                     LAMBDA r : [c \in Cols |->
                        IF b.dtypes[c] \in NumericDtypes /\ r[c] = NullOf(c)
                        THEN FillValue(c, b.dtypes[c]) ELSE r[c]]),
          dtypes |-> b.dtypes]

handle_nulls(b) ==
    IF TotalNulls(b) = 0 THEN b
    ELSE [rows |-> SeqMap(b.rows, LAMBDA r : FilledRow(b, r)),
          dtypes |-> [c \in Cols |-> FilledDtype(b, c)]]

critical_cols == <<"order_id", "order_date", "customer_id", "product_id",
                   "sales", "quantity", "profit">>

CountRows(b, P(_)) == Cardinality({i \in 1..Len(b.rows) : P(b.rows[i])})

\* a gate without the discount check
ValidationErrorsNoDiscount(b) ==
    LET neg_qty == CountRows(b, LAMBDA r : NumLt(r.quantity, 0))
        neg_sales == CountRows(b, LAMBDA r : NumLt(r.sales, 0))
    IN (IF neg_qty > 0
        THEN <<[check |-> "negative quantity", count |-> neg_qty]>>
        ELSE <<>>)
       \o (IF neg_sales > 0
           THEN <<[check |-> "negative sales", count |-> neg_sales]>>
           ELSE <<>>)

\* a gate for which check 4 (negative delivery days) is fatal as well
ValidationErrorsDeliveryFatal(b) ==
    LET nulls == SelectIdx(
                    [k \in 1..Len(critical_cols) |->
                        [check |-> critical_cols[k],
                         count |-> NullCount(b, critical_cols[k])]],
                    LAMBDA k : NullCount(b, critical_cols[k]) > 0)
        neg_qty == CountRows(b, LAMBDA r : NumLt(r.quantity, 0))
        neg_sales == CountRows(b, LAMBDA r : NumLt(r.sales, 0))
        neg_delivery == CountRows(b, LAMBDA r : NumLt(r.delivery_days, 0))
        bad_discount == CountRows(b, LAMBDA r : NumLt(r.discount, 0)
                                                \/ NumGt(r.discount, Scale))
    IN nulls
       \o (IF neg_qty > 0
           THEN <<[check |-> "negative quantity", count |-> neg_qty]>>
           ELSE <<>>)
       \o (IF neg_sales > 0
           THEN <<[check |-> "negative sales", count |-> neg_sales]>>
           ELSE <<>>)
       \o (IF neg_delivery > 0
           THEN <<[check |-> "negative delivery", count |-> neg_delivery]>>
           ELSE <<>>)
       \o (IF bad_discount > 0
           THEN <<[check |-> "invalid discount", count |-> bad_discount]>>
           ELSE <<>>)

\* a gate that raises at the first check that fails
ValidationErrorsFirstOnly(b) ==
    LET nulls == SelectIdx(
                    [k \in 1..Len(critical_cols) |->
                        [check |-> critical_cols[k],
                         count |-> NullCount(b, critical_cols[k])]],
                    LAMBDA k : NullCount(b, critical_cols[k]) > 0)
        neg_qty == CountRows(b, LAMBDA r : NumLt(r.quantity, 0))
        neg_sales == CountRows(b, LAMBDA r : NumLt(r.sales, 0))
        bad_discount == CountRows(b, LAMBDA r : NumLt(r.discount, 0)
                                                \/ NumGt(r.discount, Scale))
    IN IF nulls # <<>> THEN <<nulls[1]>>
       ELSE IF neg_qty > 0
       THEN <<[check |-> "negative quantity", count |-> neg_qty]>>
       ELSE IF neg_sales > 0
       THEN <<[check |-> "negative sales", count |-> neg_sales]>>
       ELSE IF bad_discount > 0
       THEN <<[check |-> "invalid discount", count |-> bad_discount]>>
       ELSE <<>>

\* the list `errors` of validate_data, one entry per failed check
ValidationErrors(b) ==
    LET nulls == SelectIdx(
                    [k \in 1..Len(critical_cols) |->
                        [check |-> critical_cols[k],
                         count |-> NullCount(b, critical_cols[k])]],
                    LAMBDA k : NullCount(b, critical_cols[k]) > 0)
        neg_qty == CountRows(b, LAMBDA r : NumLt(r.quantity, 0))
        neg_sales == CountRows(b, LAMBDA r : NumLt(r.sales, 0))
        bad_discount == CountRows(b, LAMBDA r : NumLt(r.discount, 0)
                                                \/ NumGt(r.discount, Scale))
    IN nulls
       \o (IF neg_qty > 0
           THEN <<[check |-> "negative quantity", count |-> neg_qty]>>
           ELSE <<>>)
       \o (IF neg_sales > 0
           THEN <<[check |-> "negative sales", count |-> neg_sales]>>
           ELSE <<>>)
       \o (IF bad_discount > 0
           THEN <<[check |-> "invalid discount", count |-> bad_discount]>>
           ELSE <<>>)

\* rows the warning of check 4 counts
NegDelivery(b) == CountRows(b, LAMBDA r : NumLt(r.delivery_days, 0))

\* a gate that reports by its return value
validate_data_returns_false(b) ==
    LET errors == ValidationErrors(b)
    IN [err |-> "none",
        errors |-> errors,
        result |-> IF errors # <<>> THEN "False" ELSE "True"]

\* return True, or raise ValueError with the list of errors (no value)
validate_data(b) ==
    LET errors == ValidationErrors(b)
    IN [err |-> IF errors # <<>> THEN "ValueError" ELSE "none",
        errors |-> errors,
        result |-> IF errors # <<>> THEN "none" ELSE "True"]

\* ------------------------------------------------------- target database
Tables == {"staging_raw_sales", "dim_date", "dim_customer", "dim_product",
           "dim_shipping", "fact_sales"}

Indexes == {"idx_fact_order_date", "idx_fact_customer", "idx_fact_product",
            "idx_fact_order_id", "idx_customer_segment",
            "idx_customer_region", "idx_product_category",
            "idx_product_subcat", "idx_date_year_month"}

\* a database file without any table
NoDB == [tables |-> {}, indexes |-> {}, rows |-> [t \in Tables |-> <<>>]]

\* CREATE TABLE IF NOT EXISTS without the drops: the rows stay
create_schema_keep_rows(db) ==
    [tables |-> Tables, indexes |-> Indexes, rows |-> db.rows]

\* DROP TABLE IF EXISTS of the six tables (indexes go with their table),
\* then CREATE TABLE of the six and CREATE INDEX of the nine
create_schema(db) ==
    [tables |-> Tables, indexes |-> Indexes, rows |-> [t \in Tables |-> <<>>]]

\* keys numbered from 0, as the index of a DataFrame is
NextKeyZeroBased(rows, k) ==
    LET used == {rows[i][k] : i \in 1..Len(rows)}
    IN IF used = {} THEN 0
       ELSE (CHOOSE x \in used : \A z \in used : z <= x) + 1

\* next AUTOINCREMENT value of a table whose key column is k
NextKey(rows, k) ==
    LET used == {rows[i][k] : i \in 1..Len(rows)}
    IN IF used = {} THEN 1
       ELSE (CHOOSE x \in used : \A z \in used : z <= x) + 1

\* rows numbered by AUTOINCREMENT in insertion order
WithKeys(old, new, k) ==
    LET base == NextKey(old, k)
    IN [i \in 1..Len(new) |-> (k :> base + i - 1) @@ new[i]]

\* no value of column k occurs twice in old \o new
UniqueOn(old, new, k) ==
    LET all == old \o new
    IN \A i, j \in 1..Len(all) : i # j => all[i][k] # all[j][k]

\* DataFrame.to_sql(if_exists='append'): one transaction, all rows or none
Insert(db, t, new) ==
    [db EXCEPT !.tables = @ \cup {t}, !.rows[t] = @ \o new]

load_staging(db, b) ==
    IF b.dtypes["order_date"] # "datetime64"
       \/ b.dtypes["ship_date"] # "datetime64"
    THEN [err |-> "AttributeError", db |-> db]
    ELSE [err |-> "none",
          db |-> Insert(db, "staging_raw_sales",
                        SeqMap(b.rows, LAMBDA r : [c \in RawCols |-> r[c]]))]

DateRow(t) ==
    [date_key |-> DateKey(t), full_date |-> t, year |-> t.y,
     quarter |-> Quarter(t), month |-> t.m, month_name |-> MonthName(t.m),
     day |-> t.d, day_of_week |-> DayOfWeek(t),
     day_name |-> DayName(DayOfWeek(t)), week_of_year |-> IsoWeek(t),
     is_weekend |-> IF DayOfWeek(t) >= 5 THEN 1 ELSE 0]

\* the dates of the order date column alone
all_dates_order_only(b) ==
    SortDates({b.rows[i].order_date : i \in 1..Len(b.rows)} \ {NaT})

\* concat of the non-missing order and ship dates, unique(), sorted()
all_dates(b) ==
    SortDates(({b.rows[i].order_date : i \in 1..Len(b.rows)}
               \cup {b.rows[i].ship_date : i \in 1..Len(b.rows)})
              \ {NaT})

load_dim_date(db, b) ==
    IF b.dtypes["order_date"] # "datetime64"
       \/ b.dtypes["ship_date"] # "datetime64"
    THEN [err |-> "ValueError", db |-> db]
    ELSE LET new == SeqMap(all_dates(b), DateRow)
         IN IF ~ UniqueOn(db.rows["dim_date"], new, "date_key")
            THEN [err |-> "IntegrityError", db |-> db]
            ELSE [err |-> "none", db |-> Insert(db, "dim_date", new)]

\* the order date of the first record of the customer instead of the min
first_order_date_of_first_record(b, cid) ==
    LET first == CHOOSE i \in 1..Len(b.rows) :
                     /\ b.rows[i].customer_id = cid
                     /\ \A j \in 1..(i - 1) : b.rows[j].customer_id # cid
    IN b.rows[first].order_date

\* min / max of the order dates of one customer over the whole batch
first_order_date(b, cid) ==
    LET S == {b.rows[i].order_date : i \in {j \in 1..Len(b.rows) :
                                             b.rows[j].customer_id = cid}}
    IN CHOOSE a \in S : \A z \in S : ~ DateLess(z, a)

last_order_date(b, cid) ==
    LET S == {b.rows[i].order_date : i \in {j \in 1..Len(b.rows) :
                                             b.rows[j].customer_id = cid}}
    IN CHOOSE a \in S : \A z \in S : ~ DateLess(a, z)

\* drop_duplicates() of the customer columns without the subset
dim_customer_rows_whole_row(b) ==
    SeqMap(DropDuplicatesBy(b.rows, LAMBDA r : <<r.customer_id,
                                                  r.customer_name>>),
           LAMBDA r : [customer_id |-> r.customer_id,
                       customer_name |-> r.customer_name,
                       first_order_date |-> first_order_date(b, r.customer_id),
                       last_order_date |-> last_order_date(b, r.customer_id)])

\* drop_duplicates(subset=['customer_id']) merged with the date aggregate
dim_customer_rows(b) ==
    SeqMap(DropDuplicatesBy(b.rows, LAMBDA r : r.customer_id),
           LAMBDA r : [customer_id |-> r.customer_id,
                       customer_name |-> r.customer_name,
                       first_order_date |-> first_order_date(b, r.customer_id),
                       last_order_date |-> last_order_date(b, r.customer_id)])

load_dim_customer(db, b) ==
    LET new == dim_customer_rows(b)
    IN IF ~ UniqueOn(db.rows["dim_customer"], new, "customer_id")
       THEN [err |-> "IntegrityError", db |-> db]
       ELSE [err |-> "none",
             db |-> Insert(db, "dim_customer",
                           WithKeys(db.rows["dim_customer"], new,
                                    "customer_key"))]

dim_product_rows(b) ==
    SeqMap(DropDuplicatesBy(b.rows, LAMBDA r : r.product_id),
           LAMBDA r : [product_id |-> r.product_id,
                       product_name |-> r.product_name])

load_dim_product(db, b) ==
    LET new == dim_product_rows(b)
    IN IF ~ UniqueOn(db.rows["dim_product"], new, "product_id")
       THEN [err |-> "IntegrityError", db |-> db]
       ELSE [err |-> "none",
             db |-> Insert(db, "dim_product",
                           WithKeys(db.rows["dim_product"], new,
                                    "product_key"))]

dim_shipping_rows(b) ==
    SeqMap(DropDuplicatesBy(b.rows, LAMBDA r : r.ship_mode),
           LAMBDA r : [ship_mode |-> r.ship_mode])

load_dim_shipping(db, b) ==
    LET new == dim_shipping_rows(b)
    IN IF ~ UniqueOn(db.rows["dim_shipping"], new, "ship_mode")
       THEN [err |-> "IntegrityError", db |-> db]
       ELSE [err |-> "none",
             db |-> Insert(db, "dim_shipping",
                           WithKeys(db.rows["dim_shipping"], new,
                                    "shipping_key"))]

\* a merge that pairs every row with every dimension row (no join key)
LeftMergeCross(rows, dim, natural, key) ==
    LET Joined(r) ==
            IF dim = <<>>
            THEN <<[f \in DOMAIN r \cup {key} |->
                      IF f = key THEN NaN ELSE r[f]]>>
            ELSE SeqMap(dim,
                        LAMBDA m : [f \in DOMAIN r \cup {key} |->
                                      IF f = key THEN m[key] ELSE r[f]])
        F[i \in 0..Len(rows)] ==
            IF i = 0 THEN <<>> ELSE F[i-1] \o Joined(rows[i])
    IN F[Len(rows)]

\* df.merge(dim, on=natural, how='left'): one output row per matching
\* dimension row, or one row with a missing key when nothing matches
LeftMerge(rows, dim, natural, key) ==
    LET Matches(r) == SelectIdx(dim, LAMBDA j : dim[j][natural] = r[natural])
        Joined(r) ==
            IF Matches(r) = <<>>
            THEN <<[f \in DOMAIN r \cup {key} |->
                      IF f = key THEN NaN ELSE r[f]]>>
            ELSE SeqMap(Matches(r),
                        LAMBDA m : [f \in DOMAIN r \cup {key} |->
                                      IF f = key THEN m[key] ELSE r[f]])
        F[i \in 0..Len(rows)] ==
            IF i = 0 THEN <<>> ELSE F[i-1] \o Joined(rows[i])
    IN F[Len(rows)]

FactRow(r) ==
    [order_id |-> r.order_id,
     order_date_key |-> r.order_date_key,
     ship_date_key |-> r.ship_date_key,
     customer_key |-> r.customer_key,
     product_key |-> r.product_key,
     shipping_key |-> r.shipping_key,
     quantity |-> r.quantity,
     sales_amount |-> r.sales,
     discount |-> r.discount,
     profit |-> r.profit]

\* a fact_sales whose three surrogate key columns are nullable
FactNotNullButKeys(f) ==
    /\ f.order_id # NA
    /\ \A c \in {"order_date_key", "ship_date_key", "quantity",
                 "sales_amount", "profit"} : f[c] # NaN

\* the NOT NULL columns of fact_sales (discount is nullable)
FactNotNull(f) ==
    /\ f.order_id # NA
    /\ \A c \in {"order_date_key", "ship_date_key", "customer_key",
                 "product_key", "shipping_key", "quantity", "sales_amount",
                 "profit"} : f[c] # NaN

\* the rows load_fact_sales hands to to_sql
fact_rows(db, b) ==
    LET keyed == SeqMap(b.rows,
                   LAMBDA r : [f \in DOMAIN r \cup {"order_date_key",
                                                    "ship_date_key"} |->
                                 IF f = "order_date_key"
                                 THEN DateKey(r.order_date)
                                 ELSE IF f = "ship_date_key"
                                 THEN DateKey(r.ship_date)
                                 ELSE r[f]])
        m1 == LeftMerge(keyed, db.rows["dim_customer"],
                        "customer_id", "customer_key")
        m2 == LeftMerge(m1, db.rows["dim_product"],
                        "product_id", "product_key")
        m3 == LeftMerge(m2, db.rows["dim_shipping"],
                        "ship_mode", "shipping_key")
    IN SeqMap(m3, FactRow)

load_fact_sales(db, b) ==
    IF ~ ({"dim_customer", "dim_product", "dim_shipping"} \subseteq db.tables)
    THEN [err |-> "OperationalError", db |-> db]
    ELSE IF b.dtypes["order_date"] # "datetime64"
            \/ b.dtypes["ship_date"] # "datetime64"
    THEN [err |-> "ValueError", db |-> db]
    \* merge of a float64 column with the TEXT column read back
    ELSE IF b.dtypes["ship_mode"] \in NumericDtypes
    THEN [err |-> "ValueError", db |-> db]
    ELSE LET new == fact_rows(db, b)
         IN IF \E i \in 1..Len(new) : ~ FactNotNull(new[i])
            THEN [err |-> "IntegrityError", db |-> db]
            ELSE [err |-> "none",
                  db |-> Insert(db, "fact_sales",
                                WithKeys(db.rows["fact_sales"], new,
                                         "sales_key"))]

\* SELECT COUNT(*) of the six tables
TableCounts(db) == [t \in Tables |-> Len(db.rows[t])]

\* a reconciliation that only notices missing rows
validate_load_fewer_only(db, source_rows) ==
    LET c == TableCounts(db)
    IN [err |-> IF c["fact_sales"] < source_rows
                THEN "ValueError" ELSE "none",
        returned |-> ~ (c["fact_sales"] < source_rows),
        counts |-> c,
        report |-> [source |-> source_rows, fact |-> c["fact_sales"]]]

\* returns the six counts, or raises after logging both counts
validate_load(db, source_rows) ==
    IF ~ (Tables \subseteq db.tables)
    THEN [err |-> "OperationalError", returned |-> FALSE,
          counts |-> TableCounts(NoDB),
          report |-> [source |-> source_rows, fact |-> 0]]
    ELSE LET c == TableCounts(db)
         IN [err |-> IF c["fact_sales"] # source_rows
                     THEN "ValueError" ELSE "none",
             returned |-> c["fact_sales"] = source_rows,
             counts |-> c,
             report |-> [source |-> source_rows, fact |-> c["fact_sales"]]]

\* ---------------------------------------------------------------- inputs
Date(y, m, d) == [y |-> y, m |-> m, d |-> d]

G1 == [order_id |-> "CA-2019-001", order_date |-> Date(2019, 1, 3),
       ship_date |-> Date(2019, 1, 7), ship_mode |-> "Standard Class",
       customer_id |-> "CUST-001", customer_name |-> "John Doe",
       product_id |-> "PROD-001", product_name |-> "Phone A",
       sales |-> "100", quantity |-> "1", discount |-> "0", profit |-> "20"]

G2 == [order_id |-> "CA-2019-002", order_date |-> Date(2019, 1, 7),
       ship_date |-> Date(2019, 1, 7), ship_mode |-> "First Class",
       customer_id |-> "CUST-002", customer_name |-> "Jane Smith",
       product_id |-> "PROD-002", product_name |-> "Chair B",
       sales |-> "200", quantity |-> "2", discount |-> "0.2", profit |-> "40"]

\* the customer of G1 under another name, ordered in the year before
G3 == [order_id |-> "CA-2018-003", order_date |-> Date(2018, 12, 29),
       ship_date |-> Date(2019, 1, 3), ship_mode |-> "Standard Class",
       customer_id |-> "CUST-001", customer_name |-> "J. Doe",
       product_id |-> "PROD-002", product_name |-> "Chair B",
       sales |-> "50", quantity |-> "3", discount |-> "0", profit |-> "-5"]

\* shipped before it was ordered
G4 == [G2 EXCEPT !.ship_date = Date(2019, 1, 3), !.product_id = "PROD-001",
                 !.product_name = "Phone A", !.sales = "3", !.profit = "1"]

GoodRecords == {G1, G2, G3, G4}

\* G1 with one cell missing, unparsable or out of range
BadRecords ==
    {[G1 EXCEPT !.order_id = NA],
     [G1 EXCEPT !.order_date = Date(2019, 13, 45)],
     [G1 EXCEPT !.order_date = NaT],
     [G1 EXCEPT !.ship_date = NaT],
     [G1 EXCEPT !.ship_date = Date(2019, 2, 30)],
     [G1 EXCEPT !.ship_mode = NA],
     [G1 EXCEPT !.customer_id = NA],
     [G1 EXCEPT !.product_id = NA],
     [G1 EXCEPT !.sales = "abc"],
     [G1 EXCEPT !.sales = ""],
     [G1 EXCEPT !.sales = "-5"],
     [G1 EXCEPT !.sales = "0"],
     [G1 EXCEPT !.quantity = "-1"],
     [G1 EXCEPT !.quantity = "1.5"],
     [G1 EXCEPT !.quantity = ""],
     [G1 EXCEPT !.discount = "1.5"],
     [G1 EXCEPT !.discount = "-0.1"],
     [G1 EXCEPT !.discount = "abc"],
     [G1 EXCEPT !.profit = ""]}

RawRecords == GoodRecords \cup BadRecords

Batches == UNION {[1..n -> RawRecords] : n \in 1..MaxRows}

\* ----------------------------------------------------------- source file
required_columns ==
    {"Order ID", "Order Date", "Ship Date", "Ship Mode", "Customer ID",
     "Customer Name", "Segment", "Country", "City", "State", "Postal Code",
     "Region", "Product ID", "Category", "Sub-Category", "Product Name",
     "Sales", "Quantity", "Discount", "Profit"}

\* no file at RAW_DATA_PATH
NoFile == [exists |-> FALSE, columns |-> {}, rows |-> <<>>]

\* headers with a column missing, two missing, and one more than required
OtherHeaders ==
    {required_columns \ {c} : c \in required_columns}
    \cup {required_columns \ {"Sales", "Profit"},
          required_columns \cup {"Row ID"}}

\* a file is its header and its data rows; the rows carry the twelve
\* columns the later steps read
Files ==
    {NoFile}
    \cup {[exists |-> TRUE, columns |-> required_columns, rows |-> rows] :
             rows \in Batches \cup {<<>>}}
    \cup {[exists |-> TRUE, columns |-> h, rows |-> rows] :
             h \in OtherHeaders, rows \in {<<>>, <<G1>>, <<G1, G2>>}}

\* --------------------------------------------------------------- pipeline
\* transform_data up to the gate, as one function (no error on the way)
Transformed(rows) ==
    handle_nulls(add_derived_columns(fix_data_types(
        remove_duplicates(RawBatch(rows))).b).b)

\* the batch after add_derived_columns, which changes it in place up to
\* the line that raises
Enriched(rows) ==
    add_derived_columns(fix_data_types(remove_duplicates(RawBatch(rows))).b).b

\* load_data as one function, for a batch every step accepts
Loaded(db, b) ==
    LET d1 == load_staging(create_schema(db), b).db
        d2 == load_dim_date(d1, b).db
        d3 == load_dim_customer(d2, b).db
        d4 == load_dim_product(d3, b).db
        d5 == load_dim_shipping(d4, b).db
    IN load_fact_sales(d5, b).db

\* load_data up to the last dimension
DimsLoaded(db, b) ==
    LET d1 == load_staging(create_schema(db), b).db
        d2 == load_dim_date(d1, b).db
        d3 == load_dim_customer(d2, b).db
        d4 == load_dim_product(d3, b).db
    IN load_dim_shipping(d4, b).db

\* what the target may hold when a run starts: nothing, or an earlier load
SeedDBs == {NoDB, Loaded(NoDB, Transformed(<<G1, G3>>))}

\* the snapshot the run that loaded db has left in data/processed
SeedBackup(d) == IF d = NoDB THEN <<>> ELSE <<G1, G3>>

NoErr == [type |-> "none", at |-> "none"]
NoValue == "none"
NoCounts == [t \in Tables |-> -1]
NoReport == [source |-> -1, fact |-> -1]
EmptyBatch == RawBatch(<<>>)

\* file: the source file of the run; backup: the rows of raw_backup.csv
\* valid: the value validate_data has returned
VARIABLES pc, file, backup, raw, df, db, db0, err, errors, valid, counts,
          report

vars == <<pc, file, backup, raw, df, db, db0, err, errors, valid, counts,
          report>>

Init ==
    /\ pc = "extract"
    /\ file = NoFile
    /\ raw = <<>>
    /\ df = EmptyBatch
    /\ db \in SeedDBs
    /\ db0 = db
    /\ backup = SeedBackup(db)
    /\ err = NoErr
    /\ errors = <<>>
    /\ valid = NoValue
    /\ counts = NoCounts
    /\ report = NoReport

\* an except block that logs and does not raise: a normal return
FailSwallowed(type) ==
    /\ pc' = "done"
    /\ err' = err

\* the except blocks of run_pipeline log and re-raise: the run ends failed
Fail(type) ==
    /\ pc' = "failed"
    /\ err' = [type |-> type, at |-> pc]

\* a column with both missing and text cells: min() of it compares a float
\* with a str in pandas builds that keep such a column as object
MixedColumn(rows, c, null) ==
    /\ \E i \in 1..Len(rows) : rows[i][c] = null
    /\ \E i \in 1..Len(rows) : rows[i][c] # null

\* an extract_data without check 3
extract_data_no_column_check(f, min_raises) ==
    LET failed(e) == [err |-> e, returned |-> FALSE, df |-> EmptyBatch,
                      saved |-> FALSE]
    IN IF ~ f.exists THEN failed("FileNotFoundError")
       ELSE IF f.rows = <<>> THEN failed("ValueError")
       ELSE IF min_raises /\ MixedColumn(f.rows, "order_date", NaT)
       THEN failed("TypeError")
       ELSE [err |-> "none", returned |-> TRUE, df |-> RawBatch(f.rows),
             saved |-> TRUE]

\* the three checks of extract_data, the date range it logs (min_raises:
\* the build raises on min() of a mixed column) and the raw backup; a file
\* of zero bytes makes read_csv raise EmptyDataError, a ValueError as well
extract_data(f, min_raises) ==
    LET failed(e) == [err |-> e, returned |-> FALSE, df |-> EmptyBatch,
                      saved |-> FALSE]
    IN IF ~ f.exists THEN failed("FileNotFoundError")
       ELSE IF f.rows = <<>> THEN failed("ValueError")
       ELSE IF required_columns \ f.columns # {} THEN failed("ValueError")
       ELSE IF min_raises /\ MixedColumn(f.rows, "order_date", NaT)
       THEN failed("TypeError")
       ELSE [err |-> "none", returned |-> TRUE, df |-> RawBatch(f.rows),
             saved |-> TRUE]

\* round(df['Sales'].sum(), 2): the sum of a text column is a text
get_extract_summary(b) ==
    IF b.dtypes["sales"] = "object" \/ b.dtypes["profit"] = "object"
    THEN "TypeError" ELSE "none"

\* validate_config, extract_data and get_extract_summary
Extract ==
    /\ pc = "extract"
    /\ \E f \in Files, min_raises \in BOOLEAN :
         LET res == extract_data(f, min_raises)
         IN /\ file' = f
            /\ raw' = f.rows
            /\ backup' = IF res.saved THEN f.rows ELSE backup
            /\ df' = IF res.returned THEN res.df ELSE df
            /\ IF res.err # "none" THEN Fail(res.err)
               ELSE IF get_extract_summary(res.df) # "none"
               THEN Fail(get_extract_summary(res.df))
               ELSE pc' = "clean" /\ err' = err
    /\ UNCHANGED <<db, db0, errors, valid, counts, report>>

\* the columns are renamed; the model names them by their new names
CleanColumnNames ==
    /\ pc = "clean"
    /\ pc' = "dedup"
    /\ UNCHANGED <<file, backup, raw, valid, df, db, db0, err, errors, counts,
                   report>>

RemoveDuplicates ==
    /\ pc = "dedup"
    /\ df' = remove_duplicates(df)
    /\ pc' = "types"
    /\ UNCHANGED <<file, backup, raw, valid, db, db0, err, errors, counts,
                   report>>

FixDataTypes ==
    /\ pc = "types"
    /\ LET res == fix_data_types(df)
       IN /\ df' = res.b
          /\ IF res.err = "none"
             THEN pc' = "derive" /\ err' = err
             ELSE Fail(res.err)
    /\ UNCHANGED <<file, backup, raw, valid, db, db0, errors, counts, report>>

\* with a zero in sales the margin is an object column: round() of it
\* leaves it as it is or raises TypeError, depending on the pandas build
AddDerivedColumns ==
    /\ pc = "derive"
    /\ LET res == add_derived_columns(df)
       IN \/ /\ df' = res.b
             /\ IF res.err = "none"
                THEN pc' = "nulls" /\ err' = err
                ELSE Fail(res.err)
          \/ /\ \E i \in 1..Len(df.rows) : df.rows[i].sales = 0
             /\ df' = df
             /\ Fail("TypeError")
    /\ UNCHANGED <<file, backup, raw, valid, db, db0, errors, counts, report>>

HandleNulls ==
    /\ pc = "nulls"
    /\ df' = handle_nulls(df)
    /\ pc' = "validate"
    /\ UNCHANGED <<file, backup, raw, valid, db, db0, err, errors, counts,
                   report>>

ValidateData ==
    /\ pc = "validate"
    /\ LET res == validate_data(df)
       IN /\ errors' = res.errors
          /\ valid' = res.result
          /\ IF res.err = "none"
             THEN pc' = "summary" /\ err' = err
             ELSE Fail(res.err)
    /\ UNCHANGED <<file, backup, raw, df, db, db0, counts, report>>

\* transform_data saves and returns; get_transform_summary then takes the
\* mean of profit_margin, which raises on an object column holding text
TransformSummary ==
    /\ pc = "summary"
    /\ IF df.dtypes["profit_margin"] = "object"
       THEN Fail("TypeError")
       ELSE pc' = "schema" /\ err' = err
    /\ UNCHANGED <<file, backup, raw, valid, df, db, db0, errors, counts,
                   report>>

CreateSchema ==
    /\ pc = "schema"
    /\ db' = create_schema(db)
    /\ pc' = "staging"
    /\ UNCHANGED <<file, backup, raw, valid, df, db0, err, errors, counts,
                   report>>

\* a load_data that undoes the earlier steps when a step raises
LoadStepRollback(next, res) ==
    /\ db' = IF res.err = "none" THEN res.db ELSE create_schema(db)
    /\ IF res.err = "none"
       THEN pc' = next /\ err' = err
       ELSE Fail(res.err)
    /\ UNCHANGED <<file, backup, raw, valid, df, db0, errors, counts, report>>

\* one step of load_data: a loader applied to the target and the batch
LoadStep(next, res) ==
    /\ db' = res.db
    /\ IF res.err = "none"
       THEN pc' = next /\ err' = err
       ELSE Fail(res.err)
    /\ UNCHANGED <<file, backup, raw, valid, df, db0, errors, counts, report>>

LoadStaging ==
    /\ pc = "staging"
    /\ LoadStep("dim_date", load_staging(db, df))

LoadDimDate ==
    /\ pc = "dim_date"
    /\ LoadStep("dim_customer", load_dim_date(db, df))

LoadDimCustomer ==
    /\ pc = "dim_customer"
    /\ LoadStep("dim_product", load_dim_customer(db, df))

\* a load_data that calls load_fact_sales before load_dim_shipping
LoadDimProductThenFact ==
    /\ pc = "dim_product"
    /\ LoadStep("fact", load_dim_product(db, df))

LoadDimProduct ==
    /\ pc = "dim_product"
    /\ LoadStep("dim_shipping", load_dim_product(db, df))

LoadDimShipping ==
    /\ pc = "dim_shipping"
    /\ LoadStep("fact", load_dim_shipping(db, df))

LoadFactSales ==
    /\ pc = "fact"
    /\ LoadStep("reconcile", load_fact_sales(db, df))

ValidateLoad ==
    /\ pc = "reconcile"
    /\ LET res == validate_load(db, Len(df.rows))
       IN /\ counts' = IF res.returned THEN res.counts ELSE counts
          /\ report' = res.report
          /\ IF res.err = "none"
             THEN pc' = "done" /\ err' = err
             ELSE Fail(res.err)
    /\ UNCHANGED <<file, backup, raw, valid, df, db, db0, errors>>

Next ==
    \/ Extract
    \/ CleanColumnNames
    \/ RemoveDuplicates
    \/ FixDataTypes
    \/ AddDerivedColumns
    \/ HandleNulls
    \/ ValidateData
    \/ TransformSummary
    \/ CreateSchema
    \/ LoadStaging
    \/ LoadDimDate
    \/ LoadDimCustomer
    \/ LoadDimProduct
    \/ LoadDimShipping
    \/ LoadFactSales
    \/ ValidateLoad

Spec == Init /\ [][Next]_vars

\* ---------------------------------------------------------------- claims
Stages == <<"extract", "clean", "dedup", "types", "derive", "nulls",
            "validate", "summary", "schema", "staging", "dim_date",
            "dim_customer", "dim_product", "dim_shipping", "fact",
            "reconcile", "done">>

Rank(s) == CHOOSE i \in 1..Len(Stages) : Stages[i] = s

\* the step the run is at, or was at when it failed
At == IF pc = "failed" THEN err.at ELSE pc

\* step s has run to its end without raising
Completed(s) == Rank(At) > Rank(s)

\* C1: row-count conservation: once load_fact_sales has written, and
\* after load_data has returned, fact_sales has as many rows as the
\* validated batch handed to load_data, and that is the count returned.
C1_RowCountConservation ==
    /\ Completed("fact") => Len(db.rows["fact_sales"]) = Len(df.rows)
    /\ pc = "done" => counts["fact_sales"] = Len(df.rows)

\* a finished load of two rows that share no customer
C1_Witness ==
    /\ pc = "done"
    /\ Len(df.rows) = 2
    /\ Len(db.rows["dim_customer"]) = 2
    /\ Len(db.rows["fact_sales"]) = 2

KeysOf(t, k) == {db.rows[t][i][k] : i \in 1..Len(db.rows[t])}

\* exactly one row of table t has value v in column k
ResolvesOnce(t, k, v) ==
    Cardinality({i \in 1..Len(db.rows[t]) : db.rows[t][i][k] = v}) = 1

\* C2: referential completeness: after load_data has returned, every fact
\* row has five non-null keys and each is the key of exactly one row of
\* dim_customer, dim_product, dim_shipping, dim_date and dim_date.
C2_ReferentialCompleteness ==
    pc = "done" =>
        \A i \in 1..Len(db.rows["fact_sales"]) :
            LET f == db.rows["fact_sales"][i]
            IN /\ \A k \in {"customer_key", "product_key", "shipping_key",
                            "order_date_key", "ship_date_key"} : f[k] # NaN
               /\ ResolvesOnce("dim_customer", "customer_key", f.customer_key)
               /\ ResolvesOnce("dim_product", "product_key", f.product_key)
               /\ ResolvesOnce("dim_shipping", "shipping_key", f.shipping_key)
               /\ ResolvesOnce("dim_date", "date_key", f.order_date_key)
               /\ ResolvesOnce("dim_date", "date_key", f.ship_date_key)

\* a finished load whose fact rows point at different dates and customers
C2_Witness ==
    /\ pc = "done"
    /\ Len(db.rows["fact_sales"]) = 2
    /\ db.rows["fact_sales"][1].customer_key # db.rows["fact_sales"][2].customer_key
    /\ db.rows["fact_sales"][1].order_date_key # db.rows["fact_sales"][1].ship_date_key

\* a raw row the gate must reject: negative quantity or sales, or a
\* discount outside [0, 1]
GateViolation(r) ==
    \/ NumLt(ToNumeric(r.quantity), 0)
    \/ NumLt(ToNumeric(r.sales), 0)
    \/ NumLt(ToNumeric(r.discount), 0)
    \/ NumGt(ToNumeric(r.discount), Scale)

HasGateViolation == \E i \in 1..Len(raw) : GateViolation(raw[i])

\* C3: the quality gate is all-or-nothing: when a row of the batch has a
\* negative quantity, negative sales or a discount outside [0,1], the run
\* never gets past validate_data, load_data is never entered and the
\* target database stays exactly as it was before the run.
C3_GateAllOrNothing ==
    HasGateViolation =>
        /\ ~ Completed("validate")
        /\ db = db0

\* the gate has rejected a batch while the target held an earlier load
C3_Witness ==
    /\ HasGateViolation
    /\ pc = "failed"
    /\ err = [type |-> "ValueError", at |-> "validate"]
    /\ errors # <<>>
    /\ db0 # NoDB
    /\ db = db0

\* a raw row with a missing or unparsable critical field
MissingCritical(r) ==
    \/ r.order_id = NA
    \/ r.customer_id = NA
    \/ r.product_id = NA
    \/ ToDatetime(r.order_date) = NaT
    \/ ToNumeric(r.sales) = NaN
    \/ ToNumeric(r.quantity) = NaN
    \/ ToNumeric(r.profit) = NaN

HasMissingCritical == \E i \in 1..Len(raw) : MissingCritical(raw[i])

\* C4: a run whose raw input has a row with a missing or unparsable
\* critical field (order id, order date, customer id, product id, sales,
\* quantity, profit) is stopped by the Row Validator: it never gets past
\* validate_data and the target database is not written.
C4_CriticalNullRejected ==
    HasMissingCritical =>
        /\ ~ Completed("validate")
        /\ db = db0

\* the values of column c over the batch
BatchValues(c) == {df.rows[i][c] : i \in 1..Len(df.rows)}

BatchDates == BatchValues("order_date") \cup BatchValues("ship_date")

\* table t has exactly one row per element of S in column k
OnePerKey(t, k, S) ==
    /\ KeysOf(t, k) = S
    /\ Len(db.rows[t]) = Cardinality(S)

DimStages == {"dim_date", "dim_customer", "dim_product", "dim_shipping"}

\* C5: dimension natural keys are unique: no dimension insert runs into
\* its uniqueness constraint, and once a dimension is populated it has
\* exactly one row per distinct customer_id, product_id, ship_mode and
\* date of the batch.
C5_DimensionKeysUnique ==
    /\ ~ (pc = "failed" /\ err.at \in DimStages
            /\ err.type = "IntegrityError")
    /\ Completed("dim_date") =>
           /\ OnePerKey("dim_date", "date_key",
                        {DateKey(t) : t \in BatchDates})
           /\ OnePerKey("dim_date", "full_date", BatchDates)
    /\ Completed("dim_customer") =>
           OnePerKey("dim_customer", "customer_id",
                     BatchValues("customer_id"))
    /\ Completed("dim_product") =>
           OnePerKey("dim_product", "product_id", BatchValues("product_id"))
    /\ Completed("dim_shipping") =>
           OnePerKey("dim_shipping", "ship_mode", BatchValues("ship_mode"))

\* two records of one customer under two names, all dimensions populated
C5_Witness ==
    /\ Completed("dim_shipping")
    /\ Len(df.rows) = 2
    /\ df.rows[1].customer_id = df.rows[2].customer_id
    /\ df.rows[1].customer_name # df.rows[2].customer_name
    /\ Len(db.rows["dim_customer"]) = 1
    /\ Len(db.rows["dim_product"]) = 2

\* the step of load_data that fills a table
StageOf(t) ==
    CASE t = "staging_raw_sales" -> "staging"
      [] t = "fact_sales" -> "fact"
      [] OTHER -> t

\* C6: fresh target on every load: whatever an earlier load left in the
\* target, after create_schema the schema is the six tables and nine
\* indexes, and every table holds exactly the rows that a load of this
\* run's batch into an empty database gives (none before its step has
\* run); the counts returned are those of such a load.
C6_FreshTarget ==
    /\ Completed("schema") =>
          /\ db.tables = Tables
          /\ db.indexes = Indexes
          /\ \A t \in Tables :
                db.rows[t] = IF Completed(StageOf(t))
                             THEN Loaded(NoDB, df).rows[t] ELSE <<>>
    /\ pc = "done" => counts = TableCounts(Loaded(NoDB, df))

\* a load of one row has finished on a target that held two fact rows
C6_Witness ==
    /\ pc = "done"
    /\ Len(db0.rows["fact_sales"]) = 2
    /\ Len(db.rows["fact_sales"]) = 1
    /\ Len(db.rows["staging_raw_sales"]) = 1

\* C7: null reconciliation is total: once handle_nulls has run, no column
\* of the batch holds a missing value, up to the end of the run.
C7_NoNullsAfterReconciliation ==
    Completed("nulls") =>
        \A i \in 1..Len(df.rows) :
            \A c \in Cols :
                df.dtypes[c] # "absent" => df.rows[i][c] # NullOf(c)

\* handle_nulls has filled a text cell and a date cell
C7_Witness ==
    /\ pc = "validate"
    /\ \E i \in 1..Len(df.rows) : df.rows[i].customer_id = Unknown
    /\ \E i \in 1..Len(df.rows) : df.rows[i].ship_date = UnknownDate

\* C8: deduplication: remove_duplicates leaves exactly one record per
\* distinct whole row of the input, every later step of transform_data
\* keeps that row count, and the load writes that many fact rows.
C8_Deduplication ==
    /\ Completed("dedup") => Len(df.rows) = Cardinality(Range(raw))
    /\ pc = "types" =>
          /\ Range(df.rows) = Range(raw)
          /\ \A i, j \in 1..Len(df.rows) : i # j => df.rows[i] # df.rows[j]
    /\ Completed("fact") =>
          Len(db.rows["fact_sales"]) = Cardinality(Range(raw))

\* a batch of two identical rows was loaded as one
C8_Witness ==
    /\ pc = "done"
    /\ Len(raw) = 2
    /\ raw[1] = raw[2]
    /\ Len(df.rows) = 1
    /\ Len(db.rows["fact_sales"]) = 1

\* ------------------------------------------ validate_load called as such
\* validate_load(engine, source_rows) on a loaded target, with a batch
\* length that need not be the one the target was loaded from
GoodBatches == UNION {[1..n -> GoodRecords] : n \in 1..MaxRows}

InitReconcile ==
    /\ pc = "reconcile"
    /\ file = NoFile
    /\ backup = <<>>
    /\ raw = <<>>
    /\ df \in {Transformed(rows) : rows \in GoodBatches}
    /\ db \in {Loaded(NoDB, Transformed(rows)) : rows \in GoodBatches}
    /\ db0 = db
    /\ err = NoErr
    /\ errors = <<>>
    /\ valid = NoValue
    /\ counts = NoCounts
    /\ report = NoReport

NextReconcile == ValidateLoad

SpecReconcile == InitReconcile /\ [][NextReconcile]_vars

\* C9: load reconciliation: validate_load raises ValueError whenever the
\* row count of fact_sales differs from the number of validated records,
\* having reported both counts; it returns the counts of the six tables
\* only when they are equal; either way it leaves every row in the target.
C9_LoadReconciliation ==
    (pc = "done" \/ (pc = "failed" /\ err.at = "reconcile")) =>
        LET fact == Len(db.rows["fact_sales"])
            source == Len(df.rows)
        IN /\ db = db0
           /\ report = [source |-> source, fact |-> fact]
           /\ fact # source =>
                 /\ pc = "failed"
                 /\ err = [type |-> "ValueError", at |-> "reconcile"]
                 /\ counts = NoCounts
           /\ fact = source =>
                 /\ pc = "done"
                 /\ counts = [t \in Tables |-> Len(db.rows[t])]

\* a mismatch was raised with more fact rows than records, rows kept
C9_Witness ==
    /\ pc = "failed"
    /\ err.at = "reconcile"
    /\ report.fact > report.source
    /\ Len(db.rows["fact_sales"]) = report.fact
    /\ Len(db.rows["dim_customer"]) > 0

\* C10: date key derivation: once load_dim_date has run, dim_date has
\* exactly one row for every date that is an order date or a ship date of
\* the batch and no other row, the date_key of a row is the YYYYMMDD
\* number of its date (20190103 for 2019-01-03), and the rows are in
\* ascending date order.
C10_DateKeyDerivation ==
    Completed("dim_date") =>
        LET rows == db.rows["dim_date"]
        IN /\ {rows[i].full_date : i \in 1..Len(rows)} = BatchDates
           /\ Len(rows) = Cardinality(BatchDates)
           /\ \A i \in 1..Len(rows) :
                 /\ rows[i].date_key \div 10000 = rows[i].full_date.y
                 /\ (rows[i].date_key \div 100) % 100 = rows[i].full_date.m
                 /\ rows[i].date_key % 100 = rows[i].full_date.d
           /\ \A i, j \in 1..Len(rows) :
                 i < j => /\ DateLess(rows[i].full_date, rows[j].full_date)
                          /\ rows[i].date_key < rows[j].date_key
           /\ Date(2019, 1, 3) \in BatchDates =>
                 ResolvesOnce("dim_date", "date_key", 20190103)

\* two fact rows share the order date 2019-01-03 and dim_date has one row
\* for it, after a row of the year before
C10_Witness ==
    /\ pc = "done"
    /\ Len(db.rows["fact_sales"]) = 2
    /\ db.rows["fact_sales"][1].order_date_key = 20190103
    /\ db.rows["fact_sales"][2].ship_date_key = 20190103
    /\ db.rows["dim_date"][1].date_key = 20181229
    /\ db.rows["dim_date"][2].date_key = 20190103

Abs(x) == IF x < 0 THEN -x ELSE x

\* C11: margin computation: right after add_derived_columns, every record
\* with sales # 0 (and sales and profit present) has profit_margin equal to
\* profit / sales * 100 rounded to two decimals (20.00 for sales 100 and
\* profit 20), every record with sales = 0 has a missing profit_margin,
\* and a zero in sales never makes add_derived_columns raise.
C11_MarginComputation ==
    /\ ~ (pc = "failed" /\ err = [type |-> "TypeError", at |-> "derive"])
    /\ pc = "nulls" =>
          \A i \in 1..Len(df.rows) :
              LET r == df.rows[i]
                  m == r.profit_margin
              IN /\ r.sales = 0 => m = NaN
                 /\ (r.sales \notin {0, NaN} /\ r.profit # NaN) =>
                        /\ m # NaN
                        /\ m % (MarginScale \div Scale) = 0
                        /\ 2 * Abs(m * r.sales - r.profit * 100 * MarginScale)
                              <= Abs(r.sales) * (MarginScale \div Scale)
                 /\ (r.sales = 100 * Scale /\ r.profit = 20 * Scale) =>
                        m = 20 * MarginScale

\* the phase of run_pipeline a step belongs to: 1 Extract, 2 Transform,
\* 3 Load, 4 the summary that is returned
Phase(s) ==
    CASE s = "extract" -> 1
      [] s \in {"clean", "dedup", "types", "derive", "nulls", "validate",
                "summary"} -> 2
      [] s = "done" -> 4
      [] OTHER -> 3

\* C12: fatal conditions always propagate: the steps of run_pipeline run
\* one after the other in the order Extract, Transform, Load; the run
\* returns (SUCCESS) only with the snapshot of Extract written, the batch
\* fully transformed and the target loaded from it and counted; a step
\* that raises ends the run as failed with that exception, no step runs
\* after it, and no later phase has started (the target is untouched when
\* Extract or Transform raised, no counts are returned).
C12_FatalPropagation ==
    /\ [](pc = "done" =>
            /\ err = NoErr
            /\ file.exists /\ raw # <<>> /\ backup = raw
            /\ df = Transformed(raw)
            /\ db = Loaded(db0, df)
            /\ counts = TableCounts(db))
    /\ [](pc = "failed" =>
            /\ err.type # "none"
            /\ counts = NoCounts
            /\ Phase(err.at) = 1 =>
                  errors = <<>> /\ df \in {EmptyBatch, RawBatch(raw)}
            /\ Phase(err.at) <= 2 => db = db0 /\ report = NoReport)
    /\ [][/\ pc \notin {"done", "failed"}
          /\ pc' # "failed" =>
                /\ Rank(pc') = Rank(pc) + 1
                /\ Phase(pc') >= Phase(pc)
                /\ err' = NoErr
          /\ pc' = "failed" => err'.at = pc /\ err'.type # "none"]_vars

\* load_fact_sales has raised after the dimensions were written
C12_Witness ==
    /\ pc = "failed"
    /\ err.at = "fact"
    /\ db.rows["dim_customer"] # <<>>
    /\ db.rows["fact_sales"] = <<>>
    /\ db0 # NoDB

\* C13: extract pre-load errors: once Extract has run, a source file that
\* does not exist has ended the run with FileNotFoundError, and a file
\* without data rows or without one of the 20 required columns has ended
\* it with ValueError; in each case the raw backup is the one that was
\* there before, no batch was returned and the target is untouched.
C13_ExtractPreLoadErrors ==
    pc # "extract" =>
        LET absent == ~ file.exists
            unusable == /\ file.exists
                        /\ \/ file.rows = <<>>
                           \/ \E c \in required_columns : c \notin file.columns
        IN /\ absent =>
                 err = [type |-> "FileNotFoundError", at |-> "extract"]
           /\ unusable => err = [type |-> "ValueError", at |-> "extract"]
           /\ (absent \/ unusable) =>
                 /\ pc = "failed"
                 /\ backup = SeedBackup(db0)
                 /\ df = EmptyBatch
                 /\ db = db0
                 /\ counts = NoCounts

\* a file with rows and without its Sales column was refused, and the
\* snapshot of the earlier run is still the one on disk
C13_Witness ==
    /\ pc = "failed"
    /\ err = [type |-> "ValueError", at |-> "extract"]
    /\ file.exists
    /\ file.rows # <<>>
    /\ file.columns = required_columns \ {"Sales"}
    /\ backup = <<G1, G3>>

\* ------------------------------------------ validate_data called as such
\* validate_data(df) on a batch with its derived columns, before or after
\* handle_nulls (the tests call it before)
InitValidate ==
    /\ pc = "validate"
    /\ file = NoFile
    /\ backup = <<>>
    /\ raw = <<>>
    /\ \E rows \in Batches :
          /\ ~ FractionalQuantity(rows)
          /\ LET enriched == Enriched(rows)
             IN df \in {enriched, handle_nulls(enriched)}
    /\ db = NoDB
    /\ db0 = NoDB
    /\ err = NoErr
    /\ errors = <<>>
    /\ valid = NoValue
    /\ counts = NoCounts
    /\ report = NoReport

NextValidate == ValidateData

SpecValidate == InitValidate /\ [][NextValidate]_vars

\* a row on which one of the fatal checks fails
FatalRow(r) ==
    \/ r.order_id = NA \/ r.customer_id = NA \/ r.product_id = NA
    \/ r.order_date = NaT
    \/ r.sales = NaN \/ r.quantity = NaN \/ r.profit = NaN
    \/ (r.quantity # NaN /\ r.quantity < 0)
    \/ (r.sales # NaN /\ r.sales < 0)
    \/ (r.discount # NaN /\ (r.discount < 0 \/ r.discount > 1 * Scale))

\* C14: validate_data returns True exactly when no row has a missing
\* value in a critical column, a negative quantity, negative sales or a
\* discount outside [0,1], and raises ValueError otherwise; it never
\* returns False and it leaves the batch as it was.
C14_ValidateReturnsTrueOrRaises ==
    /\ [](pc # "validate" =>
            IF \E i \in 1..Len(df.rows) : FatalRow(df.rows[i])
            THEN /\ pc = "failed"
                 /\ err = [type |-> "ValueError", at |-> "validate"]
                 /\ valid = NoValue
            ELSE /\ pc = "summary"
                 /\ err = NoErr
                 /\ valid = "True")
    /\ [](valid # "False")
    /\ [][pc = "validate" => df' = df]_vars

\* a batch that was not filled is refused for a missing customer id
C14_Witness ==
    /\ pc = "failed"
    /\ err = [type |-> "ValueError", at |-> "validate"]
    /\ \E i \in 1..Len(df.rows) : df.rows[i].customer_id = NA
    /\ \E k \in 1..Len(errors) : errors[k].check = "customer_id"

\* the rows of the batch that satisfy P
Offending(P(_)) == {i \in 1..Len(df.rows) : P(df.rows[i])}

\* the fatal checks that fail on the batch, each with its offending rows
FailedChecks ==
    {x \in {[check |-> c,
             count |-> Cardinality(Offending(LAMBDA r : r[c] = NullOf(c)))] :
               c \in Range(critical_cols)}
           \cup {[check |-> "negative quantity",
                  count |-> Cardinality(Offending(
                      LAMBDA r : r.quantity # NaN /\ r.quantity < 0))],
                 [check |-> "negative sales",
                  count |-> Cardinality(Offending(
                      LAMBDA r : r.sales # NaN /\ r.sales < 0))],
                 [check |-> "invalid discount",
                  count |-> Cardinality(Offending(
                      LAMBDA r : r.discount # NaN
                                 /\ (r.discount < 0 \/ r.discount > Scale)))]} :
        x.count > 0}

\* C15: violation aggregation: when validate_data raises, it raises once,
\* and the list of errors it raises with has exactly one entry for every
\* fatal check that fails on the batch (with the number of offending
\* rows), not only the first; when it returns the list is empty.
C15_ViolationAggregation ==
    /\ (pc = "failed" /\ err.at = "validate") =>
          /\ err.type = "ValueError"
          /\ Range(errors) = FailedChecks
          /\ Len(errors) = Cardinality(FailedChecks)
    /\ pc = "summary" => errors = <<>> /\ FailedChecks = {}

\* a negative quantity in one row and a discount above 1 in the other are
\* both reported
C15_Witness ==
    /\ pc = "failed"
    /\ err.at = "validate"
    /\ Len(df.rows) = 2
    /\ df.rows[1].quantity < 0 /\ df.rows[1].discount = 0
    /\ df.rows[2].quantity > 0 /\ df.rows[2].discount > Scale
    /\ Len(errors) = 2
    /\ errors[1].check = "negative quantity"
    /\ errors[2].check = "invalid discount"

\* a raw row without any anomaly, but for the order of its two dates
CleanRow(r) ==
    /\ \A c \in TextCols : r[c] # NA
    /\ ValidDate(r.order_date) /\ ValidDate(r.ship_date)
    /\ \A c \in NumCols : ToNumeric(r[c]) # NaN
    /\ ToNumeric(r.quantity) % Scale = 0 /\ ToNumeric(r.quantity) >= 0
    /\ ToNumeric(r.sales) > 0
    /\ ToNumeric(r.discount) >= 0 /\ ToNumeric(r.discount) <= Scale

ShippedBeforeOrdered(r) == DateLess(r.ship_date, r.order_date)

\* C16: negative delivery days never block progress: a run on a file
\* whose rows are clean but for one or more rows shipped before they were
\* ordered never fails; the batch keeps the negative delivery_days
\* through the gate, and when the run has finished fact_sales has one row
\* per record, those rows included, with their two date keys.
C16_NegativeDeliveryNotFatal ==
    (/\ pc # "extract"
     /\ required_columns \subseteq file.columns
     /\ \A i \in 1..Len(raw) : CleanRow(raw[i])
     /\ \E i \in 1..Len(raw) : ShippedBeforeOrdered(raw[i])) =>
        /\ pc # "failed"
        /\ Completed("derive") =>
              \E i \in 1..Len(df.rows) : df.rows[i].delivery_days < 0
        /\ pc = "done" =>
              /\ Len(db.rows["fact_sales"]) = Cardinality(Range(raw))
              /\ \A i \in 1..Len(raw) :
                    \E k \in 1..Len(db.rows["fact_sales"]) :
                        LET f == db.rows["fact_sales"][k]
                        IN /\ f.order_id = raw[i].order_id
                           /\ f.order_date_key = DateKey(raw[i].order_date)
                           /\ f.ship_date_key = DateKey(raw[i].ship_date)

\* a run has finished with a fact row whose ship date is before its
\* order date, next to a row that has them in order
C16_Witness ==
    /\ pc = "done"
    /\ Len(db.rows["fact_sales"]) = 2
    /\ db.rows["fact_sales"][1].ship_date_key
          < db.rows["fact_sales"][1].order_date_key
    /\ db.rows["fact_sales"][2].ship_date_key
          > db.rows["fact_sales"][2].order_date_key

\* C17: the Type Normalizer never raises on a bad field value: no run
\* fails in fix_data_types, and after it every order date, ship date,
\* sales, profit, discount and quantity is its typed value or missing
\* (a fractional quantity included).
C17_TypeNormalizerNeverRaises ==
    /\ ~ (pc = "failed" /\ err.at = "types")
    /\ pc = "derive" =>
          \A i \in 1..Len(df.rows) :
              LET r == df.rows[i]
              IN /\ \A c \in DateCols : r[c] = NaT \/ ValidDate(r[c])
                 /\ \A c \in NumCols :
                       \E j \in 1..Len(raw) : r[c] = ToNumeric(raw[j][c])
                 /\ r.quantity = NaN \/ r.quantity % Scale = 0

\* C18: all derived fields are absent when their inputs are absent: no
\* run fails in add_derived_columns, and after it a record without order
\* date has a missing year, month, quarter, month name, day name, week
\* number and weekend flag, and a record without order date or without
\* ship date has missing delivery_days.
C18_DerivedAbsentWhenInputAbsent ==
    /\ ~ (pc = "failed" /\ err = [type |-> "ValueError", at |-> "derive"])
    /\ pc = "nulls" =>
          \A i \in 1..Len(df.rows) :
              LET r == df.rows[i]
              IN /\ r.order_date = NaT =>
                       /\ \A c \in {"order_year", "order_month",
                                     "order_quarter", "order_week",
                                     "is_weekend"} : r[c] = NaN
                       /\ r.order_month_name = NA
                       /\ r.order_day_name = NA
                 /\ (r.order_date = NaT \/ r.ship_date = NaT) =>
                       r.delivery_days = NaN

\* the value the claim has handle_nulls put in a missing cell of column c
ClaimedFill(c) ==
    IF c \in NumCols \cup DerivedNumCols THEN 0
    ELSE IF c \in DateCols THEN UnknownDate
    ELSE Unknown

\* C19: type-dispatched default fill: handle_nulls keeps the row count,
\* leaves every present value as it is, and replaces every missing value
\* of a numeric column (sales, profit, discount, quantity, profit_margin,
\* delivery_days, the numeric calendar parts) by 0 and every missing
\* value of any other column by 'Unknown'.
C19_TypeDispatchedFill ==
    [][pc = "nulls" =>
         /\ Len(df'.rows) = Len(df.rows)
         /\ \A i \in 1..Len(df.rows) :
               \A c \in {k \in Cols : df.dtypes[k] # "absent"} :
                   df'.rows[i][c] = IF df.rows[i][c] = NullOf(c)
                                    THEN ClaimedFill(c)
                                    ELSE df.rows[i][c]]_vars

LoadStages == <<"schema", "staging", "dim_date", "dim_customer",
                "dim_product", "dim_shipping", "fact", "reconcile", "done">>

\* C20: load sub-sequence order: load_data runs schema creation, staging,
\* the date, customer, product and shipping dimensions, the fact table
\* and the reconciliation one after the other in this order, each step
\* writing its own table only; a table has rows only when its step has
\* run, fact population starts with all four dimensions populated, and
\* the reconciliation reports only after fact population has finished.
C20_LoadOrder ==
    /\ [][\A k \in 1..(Len(LoadStages) - 1) :
             pc = LoadStages[k] =>
                /\ pc' \in {LoadStages[k + 1], "failed"}
                /\ k > 1 =>
                      \A t \in Tables :
                          StageOf(t) # pc => db'.rows[t] = db.rows[t]]_vars
    /\ [](Completed("schema") =>
            /\ \A t \in Tables :
                  db.rows[t] # <<>> => Completed(StageOf(t))
            /\ Rank(At) >= Rank("fact") =>
                  \A t \in DimStages : db.rows[t] # <<>>
            /\ report # NoReport => Completed("fact"))

\* fact population has finished, every table has rows, and the
\* reconciliation has not yet run
C20_Witness ==
    /\ pc = "reconcile"
    /\ \A t \in Tables : db.rows[t] # <<>>
    /\ Len(db.rows["dim_customer"]) = 2
    /\ report = NoReport
    /\ db0 # NoDB

\* ---------------------------------------- load_fact_sales called as such
\* load_fact_sales(df, engine) on a target whose dimensions were
\* populated from a batch that need not be df, then validate_load
InitFact ==
    /\ pc = "fact"
    /\ file = NoFile
    /\ backup = <<>>
    /\ raw = <<>>
    /\ \E rows \in GoodBatches : df = Transformed(rows)
    /\ db \in {DimsLoaded(NoDB, Transformed(rows)) :
                  rows \in {<<G1>>, <<G2>>, <<G1, G2>>, <<G3, G4>>}}
    /\ db0 = db
    /\ err = NoErr
    /\ errors = <<>>
    /\ valid = NoValue
    /\ counts = NoCounts
    /\ report = NoReport

NextFact == LoadFactSales \/ ValidateLoad

SpecFact == InitFact /\ [][NextFact]_vars

\* a record of the batch whose customer id, product id or ship mode is in
\* no row of its dimension table
Unmatched(r) ==
    \/ r.customer_id \notin KeysOf("dim_customer", "customer_id")
    \/ r.product_id \notin KeysOf("dim_product", "product_id")
    \/ r.ship_mode \notin KeysOf("dim_shipping", "ship_mode")

HasUnmatched == \E i \in 1..Len(df.rows) : Unmatched(df.rows[i])

\* C21 as stated: when a record of the batch matches no row of a
\* dimension table, load_fact_sales does not fail and writes one fact row
\* per record of the batch, the unmatched ones with a null surrogate key.
C21_UnmatchedKeyWrittenNull ==
    (pc # "fact" /\ HasUnmatched) =>
        /\ ~ (pc = "failed" /\ err.at = "fact")
        /\ Len(db.rows["fact_sales"]) = Len(df.rows)
        /\ \E k \in 1..Len(db.rows["fact_sales"]) :
              LET f == db.rows["fact_sales"][k]
              IN \/ f.customer_key = NaN
                 \/ f.product_key = NaN
                 \/ f.shipping_key = NaN

\* C21 amended: when a record of the batch matches no row of a dimension
\* table, the insert into fact_sales fails with IntegrityError (the key
\* columns are NOT NULL), no row of the batch is written, the target is
\* left as it was and the reconciliation is not reached; when every
\* record matches, one fact row per record is written, none with a null
\* key.
C21_UnmatchedKeyRejected ==
    pc # "fact" =>
        IF HasUnmatched
        THEN /\ pc = "failed"
             /\ err = [type |-> "IntegrityError", at |-> "fact"]
             /\ db = db0
             /\ db.rows["fact_sales"] = <<>>
             /\ report = NoReport
        ELSE /\ err.at # "fact"
             /\ Len(db.rows["fact_sales"]) = Len(df.rows)
             /\ \A k \in 1..Len(db.rows["fact_sales"]) :
                   \A c \in {"customer_key", "product_key", "shipping_key"} :
                       db.rows["fact_sales"][k][c] # NaN

\* a batch of two records, one of a customer the dimensions do not have,
\* was refused as a whole
C21_Witness ==
    /\ pc = "failed"
    /\ err = [type |-> "IntegrityError", at |-> "fact"]
    /\ Len(df.rows) = 2
    /\ ~ Unmatched(df.rows[1])
    /\ df.rows[2].customer_id \notin KeysOf("dim_customer", "customer_id")
    /\ db.rows["fact_sales"] = <<>>

\* positions of the records of customer cid in the batch
RecordsOf(cid) == {i \in 1..Len(df.rows) : df.rows[i].customer_id = cid}

\* C22: customer dimension content: once dim_customer is populated, each
\* of its rows carries the descriptive attributes of the first record of
\* its customer in batch order, its first_order_date is the earliest and
\* its last_order_date the latest order date over all records of that
\* customer, so first_order_date is never after last_order_date.
C22_CustomerDimensionContent ==
    Completed("dim_customer") =>
        \A k \in 1..Len(db.rows["dim_customer"]) :
            LET d == db.rows["dim_customer"][k]
                S == RecordsOf(d.customer_id)
            IN /\ S # {}
               /\ \E i \in S :
                     /\ \A j \in S : i <= j
                     /\ d.customer_name = df.rows[i].customer_name
               /\ \E i \in S : d.first_order_date = df.rows[i].order_date
               /\ \E i \in S : d.last_order_date = df.rows[i].order_date
               /\ \A i \in S :
                     /\ ~ DateLess(df.rows[i].order_date, d.first_order_date)
                     /\ ~ DateLess(d.last_order_date, df.rows[i].order_date)
               /\ ~ DateLess(d.last_order_date, d.first_order_date)

\* two records of one customer, the second under another name and with
\* the earlier order date: the row has the first record's name, the
\* second record's date as first and the first record's as last
C22_Witness ==
    /\ Completed("dim_customer")
    /\ Len(df.rows) = 2
    /\ df.rows[1].customer_id = df.rows[2].customer_id
    /\ df.rows[1].customer_name # df.rows[2].customer_name
    /\ DateLess(df.rows[2].order_date, df.rows[1].order_date)
    /\ Len(db.rows["dim_customer"]) = 1
    /\ db.rows["dim_customer"][1].customer_name = df.rows[1].customer_name
    /\ db.rows["dim_customer"][1].first_order_date = df.rows[2].order_date
    /\ db.rows["dim_customer"][1].last_order_date = df.rows[1].order_date

\* ------------------------------------ load_data with database errors
\* the steps of load_data that insert into the target
InsertStages == {"staging", "dim_date", "dim_customer", "dim_product",
                 "dim_shipping", "fact"}

\* the to_sql of a step raises a database error (locked file, full disk):
\* its transaction is rolled back, the target keeps what the earlier steps
\* have committed, and load_data, which catches nothing, ends
DatabaseError ==
    /\ pc \in InsertStages
    /\ LoadStep(pc, [err |-> "OperationalError", db |-> db])

\* the pipeline is run again on the target a failed first run has left,
\* with the same batch or with a batch of one record
Rerun ==
    /\ pc = "failed"
    /\ db0 = NoDB
    /\ pc' = "schema"
    /\ df' \in {df} \cup {Transformed(<<r>>) : r \in GoodRecords}
    /\ db0' = db
    /\ err' = NoErr
    /\ UNCHANGED <<file, backup, raw, valid, db, errors, counts, report>>

InitLoadFault ==
    /\ pc = "schema"
    /\ file = NoFile
    /\ backup = <<>>
    /\ raw = <<>>
    /\ \E rows \in GoodBatches : df = Transformed(rows)
    /\ db = NoDB
    /\ db0 = NoDB
    /\ err = NoErr
    /\ errors = <<>>
    /\ valid = NoValue
    /\ counts = NoCounts
    /\ report = NoReport

NextLoadFault ==
    \/ CreateSchema
    \/ LoadStaging
    \/ LoadDimDate
    \/ LoadDimCustomer
    \/ LoadDimProduct
    \/ LoadDimShipping
    \/ LoadFactSales
    \/ ValidateLoad
    \/ DatabaseError
    \/ Rerun

SpecLoadFault == InitLoadFault /\ [][NextLoadFault]_vars

\* C23: no partial-commit recovery: when a step of load_data fails with a
\* database error, load_data ends with that error, no later step and no
\* reconciliation runs, nothing is returned, and the target keeps exactly
\* the rows the earlier steps of the run have written; nothing touches
\* them until the pipeline is run again, and a later run that succeeds
\* leaves only the rows of its own batch.
C23_NoPartialCommitRecovery ==
    /\ []((pc = "failed" /\ err.type = "OperationalError") =>
            /\ err.at \in InsertStages
            /\ counts = NoCounts
            /\ report = NoReport
            /\ LET whole == Loaded(NoDB, df)
               IN \A t \in Tables :
                     db.rows[t] = IF Completed(StageOf(t))
                                  THEN whole.rows[t] ELSE <<>>)
    /\ [][pc = "failed" => (pc' = "schema" /\ db' = db)]_vars
    /\ []((pc = "done" /\ db0 # NoDB) => db = Loaded(NoDB, df))

\* the second run has succeeded on a target in which the first run, on
\* another batch, had left its dimensions and no fact row
C23_Witness ==
    /\ pc = "done"
    /\ db0.rows["dim_customer"] # <<>>
    /\ db0.rows["dim_shipping"] # <<>>
    /\ db0.rows["fact_sales"] = <<>>
    /\ db0.rows["dim_customer"] # db.rows["dim_customer"]
    /\ Len(db.rows["fact_sales"]) = Len(df.rows)

\* the columns fix_data_types converts
NormalizedCols == DateCols \cup NumCols

\* the records whose value in column c was present in the batch before
\* the step and is missing after it
FailedToParse(c) ==
    {i \in 1..Len(df.rows) :
        /\ df.rows[i][c] # (IF c \in DateCols THEN NaT ELSE "")
        /\ df'.rows[i][c] = NullOf(c)}

\* C24: per-column coercion counts: when fix_data_types has converted a
\* batch, then for each of order date, ship date, sales, profit, discount
\* and quantity in which k > 0 values failed to parse, the log of the
\* step holds a count for that column, and it is k (or k plus the values
\* that were missing already, which the log does not tell apart).
C24_PerColumnCoercionCounts ==
    [][(pc = "types" /\ pc' = "derive") =>
          \A c \in NormalizedCols :
              FailedToParse(c) # {} =>
                  /\ c \in DOMAIN coercion_log(df')
                  /\ coercion_log(df')[c] \in {Cardinality(FailedToParse(c)),
                                               NullCount(df', c)}]_vars

\* --------------------------------------- two runs of load_data, one target
\* Each run is a process of its own with its own engine (get_engine); the
\* SQLite file is what they share. In this specification pc, df, err,
\* counts and report hold one value per run. A step of load_data is taken
\* as a whole: each to_sql is one transaction.
Runs == {1, 2}

\* the third batch has the customer, product and ship mode of G1, the
\* customer under another name
ConcurrentBatches ==
    {<<G1>>, <<G2>>, <<G1, G2>>,
     <<[G3 EXCEPT !.product_id = "PROD-001", !.product_name = "Phone A"]>>}

\* a load_data that holds an exclusive lock on the target from its
\* create_schema until it returns or raises
MayStepLocked(r) ==
    \A o \in Runs \ {r} : pc[o] \in {"schema", "done", "failed"}

\* get_engine and create_schema open the file with no lock of their own,
\* and load_data takes none: a run takes its next step wherever the other
\* run is
MayStep(r) == TRUE

InitConcurrent ==
    /\ pc = [r \in Runs |-> "schema"]
    /\ file = NoFile
    /\ backup = <<>>
    /\ raw = <<>>
    /\ df \in [Runs -> {Transformed(rows) : rows \in ConcurrentBatches}]
    /\ db = NoDB
    /\ db0 = NoDB
    /\ err = [r \in Runs |-> NoErr]
    /\ errors = <<>>
    /\ valid = NoValue
    /\ counts = [r \in Runs |-> NoCounts]
    /\ report = [r \in Runs |-> NoReport]

\* one step of the load_data of run r
ConcLoadStep(r, next, res) ==
    /\ MayStep(r)
    /\ db' = res.db
    /\ IF res.err = "none"
       THEN pc' = [pc EXCEPT ![r] = next] /\ err' = err
       ELSE /\ pc' = [pc EXCEPT ![r] = "failed"]
            /\ err' = [err EXCEPT ![r] = [type |-> res.err, at |-> pc[r]]]
    /\ UNCHANGED <<file, backup, raw, valid, df, db0, errors, counts, report>>

ConcCreateSchema(r) ==
    /\ pc[r] = "schema"
    /\ ConcLoadStep(r, "staging", [err |-> "none", db |-> create_schema(db)])

ConcLoadStaging(r) ==
    /\ pc[r] = "staging"
    /\ ConcLoadStep(r, "dim_date", load_staging(db, df[r]))

ConcLoadDimDate(r) ==
    /\ pc[r] = "dim_date"
    /\ ConcLoadStep(r, "dim_customer", load_dim_date(db, df[r]))

ConcLoadDimCustomer(r) ==
    /\ pc[r] = "dim_customer"
    /\ ConcLoadStep(r, "dim_product", load_dim_customer(db, df[r]))

ConcLoadDimProduct(r) ==
    /\ pc[r] = "dim_product"
    /\ ConcLoadStep(r, "dim_shipping", load_dim_product(db, df[r]))

ConcLoadDimShipping(r) ==
    /\ pc[r] = "dim_shipping"
    /\ ConcLoadStep(r, "fact", load_dim_shipping(db, df[r]))

ConcLoadFactSales(r) ==
    /\ pc[r] = "fact"
    /\ ConcLoadStep(r, "reconcile", load_fact_sales(db, df[r]))

ConcValidateLoad(r) ==
    /\ pc[r] = "reconcile"
    /\ MayStep(r)
    /\ LET res == validate_load(db, Len(df[r].rows))
       IN /\ counts' = IF res.returned
                        THEN [counts EXCEPT ![r] = res.counts] ELSE counts
          /\ report' = [report EXCEPT ![r] = res.report]
          /\ IF res.err = "none"
             THEN pc' = [pc EXCEPT ![r] = "done"] /\ err' = err
             ELSE /\ pc' = [pc EXCEPT ![r] = "failed"]
                  /\ err' = [err EXCEPT ![r] = [type |-> res.err,
                                                at |-> "reconcile"]]
    /\ UNCHANGED <<file, backup, raw, valid, df, db, db0, errors>>

ConcStep(r) ==
    \/ ConcCreateSchema(r)
    \/ ConcLoadStaging(r)
    \/ ConcLoadDimDate(r)
    \/ ConcLoadDimCustomer(r)
    \/ ConcLoadDimProduct(r)
    \/ ConcLoadDimShipping(r)
    \/ ConcLoadFactSales(r)
    \/ ConcValidateLoad(r)

NextConcurrent == \E r \in Runs : ConcStep(r)

SpecConcurrent == InitConcurrent /\ [][NextConcurrent]_vars

\* C25: two concurrent runs corrupt each other: nothing holds a run of
\* load_data back while the other run is between its steps: a run that
\* is about to rebuild the schema can do so wherever the other run is.
\* What a run can then end with is an integrity error in a dimension or
\* fact insert, a reconciliation failure with a fact count that is not
\* its batch size, or a normal return whose fact count is its batch size
\* whatever else the target holds.
C25_ConcurrentRunsUnprotected ==
    \A r \in Runs :
        /\ pc[r] = "schema" => ENABLED ConcCreateSchema(r)
        /\ pc[r] = "failed" =>
              \/ /\ err[r].type = "IntegrityError"
                 /\ err[r].at \in DimStages \cup {"fact"}
              \/ /\ err[r] = [type |-> "ValueError", at |-> "reconcile"]
                 /\ report[r].fact # Len(df[r].rows)
        /\ pc[r] = "done" => counts[r]["fact_sales"] = Len(df[r].rows)

\* run 1 has returned normally with its fact row pointing at a customer
\* row that run 2 wrote (it has the name of run 2's batch), and run 2 has
\* ended in a reconciliation failure, counting the fact rows of both
C25_Witness ==
    /\ pc[1] = "done"
    /\ pc[2] = "failed"
    /\ err[2] = [type |-> "ValueError", at |-> "reconcile"]
    /\ report[2].fact = Len(df[1].rows) + Len(df[2].rows)
    /\ Len(db.rows["dim_customer"]) = 1
    /\ db.rows["fact_sales"][1].order_id = df[1].rows[1].order_id
    /\ db.rows["fact_sales"][1].customer_key
          = db.rows["dim_customer"][1].customer_key
    /\ db.rows["dim_customer"][1].customer_name = df[2].rows[1].customer_name
    /\ db.rows["dim_customer"][1].customer_name # df[1].rows[1].customer_name

\* the dimensions with a surrogate key: table, natural key, surrogate key
KeyedDims ==
    {<<"dim_customer", "customer_id", "customer_key">>,
     <<"dim_product", "product_id", "product_key">>,
     <<"dim_shipping", "ship_mode", "shipping_key">>}

\* position in the batch of the first record with value v in column c
FirstOccurrence(c, v) ==
    CHOOSE i \in 1..Len(df.rows) :
        /\ df.rows[i][c] = v
        /\ \A j \in 1..(i - 1) : df.rows[j][c] # v

\* C26: deterministic surrogate keys: once a dimension with a surrogate
\* key is populated, its rows are the natural keys of the batch in the
\* order of their first occurrence and the k-th row has key k; the keys
\* and the fact rows of a finished run are those of a load of its batch
\* into an empty database, whatever batch an earlier run has loaded, so a
\* run on the batch the earlier run had loaded leaves an identical target.
C26_DeterministicSurrogateKeys ==
    /\ \A d \in KeyedDims :
          Completed(d[1]) =>
              LET rows == db.rows[d[1]]
              IN /\ {rows[k][d[2]] : k \in 1..Len(rows)} = BatchValues(d[2])
                 /\ \A k \in 1..Len(rows) : rows[k][d[3]] = k
                 /\ \A j, k \in 1..Len(rows) :
                       j < k => FirstOccurrence(d[2], rows[j][d[2]])
                                  < FirstOccurrence(d[2], rows[k][d[2]])
    /\ pc = "done" =>
          /\ \A t \in DimStages \cup {"fact_sales"} :
                db.rows[t] = Loaded(NoDB, df).rows[t]
          /\ db0 = Loaded(NoDB, df) => db = db0

\* a run has finished on a target where an earlier run had given key 1
\* to another customer: the two customers of its batch have the keys 1
\* and 2 in batch order and its second fact row points at key 2
C26_Witness ==
    /\ pc = "done"
    /\ db0 # NoDB
    /\ Len(df.rows) = 2
    /\ df.rows[1].customer_id # df.rows[2].customer_id
    /\ db0.rows["dim_customer"][1].customer_id = df.rows[2].customer_id
    /\ db.rows["dim_customer"][1].customer_id = df.rows[1].customer_id
    /\ db.rows["dim_customer"][1].customer_key = 1
    /\ db.rows["dim_customer"][2].customer_id = df.rows[2].customer_id
    /\ db.rows["dim_customer"][2].customer_key = 2
    /\ db.rows["fact_sales"][2].customer_key = 2

\* the cell of column c is a text that is no number
Unparsable(r, c) == r[c] # "" /\ ToNumeric(r[c]) = NaN

\* every record of the file is valid, or valid but for one unparsable
\* numeric cell
OnlyCoercionFailures ==
    \A j \in 1..Len(raw) :
        \/ raw[j] \in GoodRecords
        \/ \E c \in NumCols, g \in GoodRecords :
              Unparsable(raw[j], c) /\ [raw[j] EXCEPT ![c] = g[c]] = g

\* the column of fact_sales that holds column c of the batch
FactColumn(c) == IF c = "sales" THEN "sales_amount" ELSE c

\* C27: coercion failures are loaded as defaults: a record whose sales,
\* profit, discount or quantity text fails to parse, in a file that is
\* valid otherwise, does not make the run fail; the field is 0 once
\* handle_nulls has run, the validation gate reports nothing, and the
\* record is written to fact_sales with 0 in that field.
C27_CoercionFailuresLoadedAsDefaults ==
    \A i \in 1..Len(raw) : \A c \in NumCols :
        (Unparsable(raw[i], c) /\ OnlyCoercionFailures) =>
            /\ pc # "failed"
            /\ Completed("validate") => errors = <<>>
            /\ Len(df.rows) = Len(raw) =>
                  /\ Completed("nulls") => df.rows[i][c] = 0
                  /\ Completed("fact") =>
                        db.rows["fact_sales"][i][FactColumn(c)] = 0

====
